---- MODULE Spec2Model ----
(***************************************************************************)
(* Model of the MemoryCard save-game reconciliation engine                 *)
(* (src/MemoryCard/src-tauri/src/lib.rs): sync_game_saves,                  *)
(* get_files_recursive, copy_file and resolve_conflict, over two small      *)
(* directory trees.                                                         *)
(***************************************************************************)
EXTENDS Integers, Sequences, FiniteSets, Bags, TLC

\* Modification times of the files present before the first run: 1..MaxTime.
MaxTime == 2
\* How many times the wall clock may advance past its first value.
MaxTicks == 1
\* How many times sync_game_saves is called in one behaviour.
MaxRuns == 2
\* How many times resolve_conflict is called in one behaviour.
MaxResolves == 1
MaxLogs == 2

Sides == {"local", "cloud"}

Other(side) == IF side = "local" THEN "cloud" ELSE "local"

\* Relative paths beneath a root, as sequences of path components.
Paths == {<<"save">>, <<"slot">>, <<"slot", "save">>}

\* The proper ancestors of a relative path (the root itself excluded).
Ancestors(p) == {SubSeq(p, 1, k) : k \in 1..(Len(p) - 1)}

\* The paths of the universe that lie beneath p.
Descendants(p) == {q \in Paths : p \in Ancestors(q)}

\* Option<String>: None is the empty sequence, Some(s) a one-element one.
None == <<>>
Some(s) == <<s>>

\* The values of the auto_resolve argument that are tried.
Policies == {None, Some("local"), Some("cloud"), Some("newer"), Some("Local")}

----------------------------------------------------------------------------
\* The file system: for each side the kind of the root path and the node at
\* every relative path.

NoNode == [kind |-> "none", modified |-> 0, mtime_ok |-> FALSE, content |-> <<>>]
DirNode == [kind |-> "dir", modified |-> 0, mtime_ok |-> FALSE, content |-> <<>>]
FileNode(m, ok, c) == [kind |-> "file", modified |-> m, mtime_ok |-> ok, content |-> c]

\* The bytes a file holds before the first run: distinct for every file, and
\* of a different length on the two sides.
InitContent(side, p) ==
    IF side = "local" THEN <<side>> \o p ELSE <<side>> \o p \o <<"v2">>

\* A present node has directories for all its ancestors.
TreeOK(t) == \A p \in Paths : t[p].kind # "none" =>
                 \A a \in Ancestors(p) : t[a].kind = "dir"

InitNodes(side, p) ==
    {NoNode}
    \cup (IF Descendants(p) # {} THEN {DirNode} ELSE {})
    \cup {FileNode(m, TRUE, InitContent(side, p)) : m \in 1..MaxTime}
    \cup {FileNode(1, FALSE, InitContent(side, p))}

EmptyTree == [p \in Paths |-> NoNode]

InitRoots(side) ==
    {[kind |-> "missing", nodes |-> EmptyTree], [kind |-> "file", nodes |-> EmptyTree]}
    \cup {[kind |-> "dir", nodes |-> t] :
            t \in {u \in [Paths -> UNION {InitNodes(side, p) : p \in Paths}] :
                      /\ \A p \in Paths : u[p] \in InitNodes(side, p)
                      /\ TreeOK(u)}}

VARIABLES
    fs,            \* fs[side] = [kind, nodes]
    clock,         \* the wall clock
    keeps_mtime,   \* whether fs::copy carries the source's mtime over
    pc,            \* "idle" or "syncing"
    auto_resolve,  \* argument of the running or last sync_game_saves
    local_map,     \* relative path -> modified, of the local index
    cloud_map,     \* relative path -> modified, of the cloud index
    todo_local,    \* entries of local_map the first loop has yet to visit
    todo_cloud,    \* entries of cloud_map the second loop has yet to visit
    files_synced,
    conflicts,
    result,        \* what the last finished command returned
    pre,           \* fs when the running or last sync_game_saves started
    copied,        \* per path, the copies made by the running or last run
    handled,       \* per path, the branches that handled it in this run
    last,          \* summary of the sync_game_saves run before this one
    external,      \* a root was changed outside the engine since the last run
    resolved,      \* what the last resolve_conflict returned
    runs,          \* calls of sync_game_saves so far
    resolves,      \* calls of resolve_conflict so far
    other,         \* a second invocation of sync_game_saves, while it is
                   \* not the one taking steps
    history        \* the sync_history table, its AUTOINCREMENT counter and
                   \* what the last history command returned

vars == <<fs, clock, keeps_mtime, pc, auto_resolve, local_map, cloud_map,
          todo_local, todo_cloud, files_synced, conflicts, result, pre,
          copied, handled, last, external, resolved, runs, resolves, other,
          history>>

----------------------------------------------------------------------------
\* File-system primitives of std::fs as the engine uses them.

\* Path::exists on a root.
Exists(f, side) == f[side].kind # "missing"

\* Mutant of CreateDirAllFails: a regular file on the way to p is replaced
\* by a directory.
CreateDirAllFailsAtRootOnly(f, side, p) ==
    f[side].kind = "file"

\* fs::create_dir_all(root.join(p).parent()) returns Err: the root or an
\* ancestor of p is a regular file.
CreateDirAllFails(f, side, p) ==
    \/ f[side].kind = "file"
    \/ \E a \in Ancestors(p) : f[side].nodes[a].kind = "file"

\* fs::create_dir_all(root.join(p).parent()): every missing directory on the
\* way to p is created.
create_dir_all(f, side, p) ==
    [f EXCEPT ![side].kind = "dir",
              ![side].nodes =
        [q \in Paths |-> IF q \in Ancestors(p) THEN DirNode ELSE @[q]]]

\* fs::copy(src, dst) returns Err: no regular file at the source, no
\* directory to hold the destination, or a directory at the destination.
CopyFails(f, ss, sp, ds, dp) ==
    \/ f[ss].kind # "dir"
    \/ f[ss].nodes[sp].kind # "file"
    \/ f[ds].kind # "dir"
    \/ \E a \in Ancestors(dp) : f[ds].nodes[a].kind # "dir"
    \/ f[ds].nodes[dp].kind = "dir"

\* Mutant of copy_file: the file is moved, and the source is gone.
copy_fileMoving(f, ss, sp, ds, dp) ==
    LET src == f[ss].nodes[sp]
    IN  [f EXCEPT ![ds].nodes[dp] =
                      IF keeps_mtime
                      THEN FileNode(src.modified, src.mtime_ok, src.content)
                      ELSE FileNode(clock, TRUE, src.content),
                  ![ss].nodes[sp] = NoNode]

\* Mutant of copy_file: a destination that exists is left as it is.
copy_fileIfAbsent(f, ss, sp, ds, dp) ==
    LET src == f[ss].nodes[sp]
    IN  IF f[ds].nodes[dp].kind = "file" THEN f
        ELSE [f EXCEPT ![ds].nodes[dp] =
                IF keeps_mtime
                THEN FileNode(src.modified, src.mtime_ok, src.content)
                ELSE FileNode(clock, TRUE, src.content)]

\* copy_file(src, dst): the destination is created or overwritten with the
\* source's bytes. Its modification time is the source's where fs::copy
\* carries file times over (macOS, Windows) and the time of the copy where
\* it does not (Linux).
copy_file(f, ss, sp, ds, dp) ==
    LET src == f[ss].nodes[sp]
    IN  [f EXCEPT ![ds].nodes[dp] =
            IF keeps_mtime
            THEN FileNode(src.modified, src.mtime_ok, src.content)
            ELSE FileNode(clock, TRUE, src.content)]

\* Mutant of RootCheck: the cloud root is checked first.
RootCheckCloudFirst(f) ==
    IF ~Exists(f, "cloud") THEN "cloud"
    ELSE IF ~Exists(f, "local") THEN "local"
    ELSE "ok"

\* The two existence checks at the head of sync_game_saves: the side whose
\* root is reported missing, or "ok".
RootCheck(f) ==
    IF ~Exists(f, "local") THEN "local"
    ELSE IF ~Exists(f, "cloud") THEN "cloud"
    ELSE "ok"

\* Mutant of IndexedPaths: a file is indexed whether or not its modification
\* time can be read.
IndexedPathsAnyFile(f, side) ==
    IF f[side].kind = "dir"
    THEN {p \in Paths : f[side].nodes[p].kind = "file"}
    ELSE {}

\* Mutant of IndexedPaths: the walk does not descend into subdirectories.
IndexedPathsTopLevel(f, side) ==
    IF f[side].kind = "dir"
    THEN {p \in Paths : /\ Len(p) = 1
                        /\ f[side].nodes[p].kind = "file"
                        /\ f[side].nodes[p].mtime_ok}
    ELSE {}

\* get_files_recursive(root) joined with the strip_prefix loop: the relative
\* paths of the regular files beneath the root whose modification time can
\* be read. A root that is not a directory yields the empty list.
IndexedPaths(f, side) ==
    IF f[side].kind = "dir"
    THEN {p \in Paths : f[side].nodes[p].kind = "file" /\ f[side].nodes[p].mtime_ok}
    ELSE {}

get_files_recursive(f, side) ==
    [p \in IndexedPaths(f, side) |-> f[side].nodes[p].modified]

\* The entries fs::read_dir(dir) yields under the root of side: the nodes
\* directly beneath dir, where <<>> is the root itself.
read_dir(f, side, dir) ==
    {p \in Paths : /\ Len(p) = Len(dir) + 1
                   /\ SubSeq(p, 1, Len(dir)) = dir
                   /\ f[side].nodes[p].kind # "none"}

\* FileInfo { path, modified }, with the path as read_dir gives it: the root
\* joined with the relative path.
FileInfo(side, p, modified) == [path |-> <<side>> \o p, modified |-> modified]

RECURSIVE files_extendWithDirs(_, _, _)
\* Mutant of files_extend: a directory is pushed as an entry before the walk
\* descends into it.
files_extendWithDirs(f, side, entries) ==
    IF entries = {} THEN EmptyBag
    ELSE LET path == CHOOSE e \in entries : TRUE
             node == f[side].nodes[path]
             here == IF node.kind = "dir"
                     THEN SetToBag({FileInfo(side, path, node.modified)})
                              (+) files_extendWithDirs(f, side, read_dir(f, side, path))
                     ELSE IF node.mtime_ok
                     THEN SetToBag({FileInfo(side, path, node.modified)})
                     ELSE EmptyBag
         IN  here (+) files_extendWithDirs(f, side, entries \ {path})

RECURSIVE files_extend(_, _, _)
\* The loop of get_files_recursive over the entries of one directory, as the
\* bag of FileInfo it collects in the Vec: a directory adds the entries of
\* its own walk, a file adds one entry when its modification time can be
\* read and none when it cannot.
files_extend(f, side, entries) ==
    IF entries = {} THEN EmptyBag
    ELSE LET path == CHOOSE e \in entries : TRUE
             node == f[side].nodes[path]
             here == IF node.kind = "dir"
                     THEN files_extend(f, side, read_dir(f, side, path))
                     ELSE IF node.mtime_ok
                     THEN SetToBag({FileInfo(side, path, node.modified)})
                     ELSE EmptyBag
         IN  here (+) files_extend(f, side, entries \ {path})

\* get_files_recursive(root) as a bag: empty when the root is not a directory.
files(f, side) ==
    IF f[side].kind = "dir" THEN files_extend(f, side, read_dir(f, side, <<>>))
    ELSE EmptyBag

\* Mutant of ResolveDivergent: the "local" arm copies cloud to local.
ResolveDivergentLocalReversed(resolution, local_modified, cloud_modified) ==
    IF resolution = None THEN "conflict"
    ELSE IF resolution = Some("local") THEN "to_local"
    ELSE IF resolution = Some("cloud") THEN "to_local"
    ELSE IF resolution = Some("newer")
         THEN (IF local_modified > cloud_modified THEN "to_cloud" ELSE "to_local")
    ELSE "conflict"

\* Mutant of ResolveDivergent: the "cloud" arm compares the times as the
\* "newer" arm does.
ResolveDivergentCloudByTime(resolution, local_modified, cloud_modified) ==
    IF resolution = None THEN "conflict"
    ELSE IF resolution = Some("local") THEN "to_cloud"
    ELSE IF resolution \in {Some("cloud"), Some("newer")}
         THEN (IF local_modified > cloud_modified THEN "to_cloud" ELSE "to_local")
    ELSE "conflict"

\* Mutant of ResolveDivergent: the "newer" arm compares the times the wrong
\* way round.
ResolveDivergentOlderWins(resolution, local_modified, cloud_modified) ==
    IF resolution = None THEN "conflict"
    ELSE IF resolution = Some("local") THEN "to_cloud"
    ELSE IF resolution = Some("cloud") THEN "to_local"
    ELSE IF resolution = Some("newer")
         THEN (IF local_modified < cloud_modified THEN "to_cloud" ELSE "to_local")
    ELSE "conflict"

\* Mutant of ResolveDivergent: the wildcard arm falls back to "newer".
ResolveDivergentWildcardNewer(resolution, local_modified, cloud_modified) ==
    IF resolution = None THEN "conflict"
    ELSE IF resolution = Some("local") THEN "to_cloud"
    ELSE IF resolution = Some("cloud") THEN "to_local"
    ELSE IF local_modified > cloud_modified THEN "to_cloud" ELSE "to_local"

\* The match on auto_resolve for a path whose two modification times differ.
ResolveDivergent(resolution, local_modified, cloud_modified) ==
    IF resolution = None THEN "conflict"
    ELSE IF resolution = Some("local") THEN "to_cloud"
    ELSE IF resolution = Some("cloud") THEN "to_local"
    ELSE IF resolution = Some("newer")
         THEN (IF local_modified > cloud_modified THEN "to_cloud" ELSE "to_local")
    ELSE "conflict"

\* Mutant of Transfer: the destination's parent directories are not created.
TransferNoCreateDirAll(f, ss, p, mkdir, fault) ==
    LET ds == Other(ss)
    IN  IF fault = "copy" \/ CopyFails(f, ss, p, ds, p)
        THEN [ok |-> FALSE, fs |-> f]
        ELSE [ok |-> TRUE, fs |-> copy_file(f, ss, p, ds, p)]

\* One transfer of the file at p from side ss to the other side, with the
\* create_dir_all that precedes it for a one-sided path. fault names the
\* operation the environment makes fail, if any.
Transfer(f, ss, p, mkdir, fault) ==
    LET ds == Other(ss)
        f1 == IF mkdir THEN create_dir_all(f, ds, p) ELSE f
    IN  IF mkdir /\ (fault = "create_dir_all" \/ CreateDirAllFails(f, ds, p))
        THEN [ok |-> FALSE, fs |-> f]
        ELSE IF fault = "copy" \/ CopyFails(f1, ss, p, ds, p)
        THEN [ok |-> FALSE, fs |-> f1]
        ELSE [ok |-> TRUE, fs |-> copy_file(f1, ss, p, ds, p)]

\* format!("{:?}", modified): the Debug text of a SystemTime, one text per time.
DebugFormat(modified) == <<"SystemTime", modified>>

\* Mutant of FileConflict: the two sizes are taken from the wrong files.
FileConflictSizesSwapped(f, p) ==
    [relative_path  |-> p,
     local_path     |-> <<"local">> \o p,
     cloud_path     |-> <<"cloud">> \o p,
     local_modified |-> DebugFormat(local_map[p]),
     cloud_modified |-> DebugFormat(cloud_map[p]),
     local_size     |-> Len(f["cloud"].nodes[p].content),
     cloud_size     |-> Len(f["local"].nodes[p].content)]

\* The FileConflict pushed for p.
FileConflict(f, p) ==
    [relative_path  |-> p,
     local_path     |-> <<"local">> \o p,
     cloud_path     |-> <<"cloud">> \o p,
     local_modified |-> DebugFormat(local_map[p]),
     cloud_modified |-> DebugFormat(cloud_map[p]),
     local_size     |-> Len(f["local"].nodes[p].content),
     cloud_size     |-> Len(f["cloud"].nodes[p].content)]

----------------------------------------------------------------------------
\* Values returned by sync_game_saves.

NoResult == [kind |-> "none", error |-> "", success |-> FALSE,
             message |-> <<>>, files_synced |-> 0, conflicts |-> <<>>]

Err(e) == [kind |-> "err", error |-> e, success |-> FALSE,
           message |-> <<>>, files_synced |-> 0, conflicts |-> <<>>]

\* Mutant of SyncResult: success is always true, as in the engine's earlier
\* revision.
SyncResultAlwaysSuccess(n, cs) ==
    [kind |-> "ok", error |-> "",
     success |-> TRUE,
     message |-> <<"Successfully synced", n>>,
     files_synced |-> n,
     conflicts |-> cs]

SyncResult(n, cs) ==
    [kind |-> "ok", error |-> "",
     success |-> (cs = <<>>),
     message |-> IF cs = <<>> THEN <<"Successfully synced", n>>
                 ELSE <<"Found conflicts", Len(cs)>>,
     files_synced |-> n,
     conflicts |-> cs]

NoCopies == [p \in Paths |-> [to_cloud |-> 0, to_local |-> 0]]
NotHandled == [p \in Paths |-> {}]
NoLast == [ran |-> FALSE, auto_resolve |-> None, success |-> FALSE, quiet |-> FALSE,
           result |-> NoResult, copied |-> NoCopies]

\* The history database before anything was logged.
NoHistory == [sync_history |-> {}, sqlite_sequence |-> 0, returned |-> <<>>]

\* No second invocation.
NoOther == [id |-> 0, interleaved |-> FALSE,
            fs |-> [side \in Sides |-> [kind |-> "missing", nodes |-> EmptyTree]],
            pc |-> "idle", auto_resolve |-> None,
            local_map |-> <<>>, cloud_map |-> <<>>,
            todo_local |-> {}, todo_cloud |-> {},
            files_synced |-> 0, conflicts |-> <<>>, result |-> NoResult,
            pre |-> [side \in Sides |-> [kind |-> "missing", nodes |-> EmptyTree]],
            copied |-> NoCopies, handled |-> NotHandled, runs |-> 0]

\* The operation the environment makes fail during a step, if any.
IndexFaults == {"none", "read_dir"}
EntryFaults == {"none", "create_dir_all", "copy", "metadata"}
CopyFaults == {"none", "copy"}

----------------------------------------------------------------------------
Init ==
    /\ \E l \in InitRoots("local"), c \in InitRoots("cloud") :
          fs = [side \in Sides |-> IF side = "local" THEN l ELSE c]
    /\ clock = MaxTime + 1
    /\ keeps_mtime \in BOOLEAN
    /\ pc = "idle"
    /\ auto_resolve = None
    /\ local_map = <<>>
    /\ cloud_map = <<>>
    /\ todo_local = {}
    /\ todo_cloud = {}
    /\ files_synced = 0
    /\ conflicts = <<>>
    /\ result = NoResult
    /\ pre = fs
    /\ copied = NoCopies
    /\ handled = NotHandled
    /\ last = NoLast
    /\ external = FALSE
    /\ resolved = "none"
    /\ runs = 0
    /\ resolves = 0
    /\ other = NoOther
    /\ history = NoHistory

\* sync_game_saves returns r: the command's locals are dropped.
Return(r) ==
    /\ pc' = "idle"
    /\ result' = r
    /\ local_map' = <<>>
    /\ cloud_map' = <<>>
    /\ todo_local' = {}
    /\ todo_cloud' = {}

\* Mutant of SyncStart: files_synced is not reset, so it carries over from
\* the invocation before.
SyncStartKeepingCount(policy, fault) ==
    /\ pc = "idle"
    /\ runs' = runs + 1
    /\ auto_resolve' = policy
    /\ pre' = fs
    /\ last' = [ran |-> result.kind # "none", auto_resolve |-> auto_resolve,
                success |-> result.success, quiet |-> ~external,
                result |-> result, copied |-> copied]
    /\ external' = FALSE
    /\ files_synced' = files_synced
    /\ conflicts' = <<>>
    /\ copied' = NoCopies
    /\ handled' = NotHandled
    /\ IF RootCheck(fs) # "ok" THEN Return(Err(RootCheck(fs)))
       ELSE IF fault = "read_dir" THEN Return(Err("io"))
       ELSE /\ pc' = "syncing"
            /\ result' = NoResult
            /\ local_map' = get_files_recursive(fs, "local")
            /\ cloud_map' = get_files_recursive(fs, "cloud")
            /\ todo_local' = IndexedPaths(fs, "local")
            /\ todo_cloud' = IndexedPaths(fs, "cloud")
    /\ UNCHANGED <<fs, clock, keeps_mtime, resolved, resolves, other, history>>

\* sync_game_saves, from its entry to the start of the first loop: the two
\* existence checks, the two indexes and the two maps.
SyncStart(policy, fault) ==
    /\ pc = "idle"
    /\ runs' = runs + 1
    /\ auto_resolve' = policy
    /\ pre' = fs
    /\ last' = [ran |-> result.kind # "none", auto_resolve |-> auto_resolve,
                success |-> result.success, quiet |-> ~external,
                result |-> result, copied |-> copied]
    /\ external' = FALSE
    /\ files_synced' = 0
    /\ conflicts' = <<>>
    /\ copied' = NoCopies
    /\ handled' = NotHandled
    /\ IF RootCheck(fs) # "ok" THEN Return(Err(RootCheck(fs)))
       ELSE IF fault = "read_dir" THEN Return(Err("io"))
       ELSE /\ pc' = "syncing"
            /\ result' = NoResult
            /\ local_map' = get_files_recursive(fs, "local")
            /\ cloud_map' = get_files_recursive(fs, "cloud")
            /\ todo_local' = IndexedPaths(fs, "local")
            /\ todo_cloud' = IndexedPaths(fs, "cloud")
    /\ UNCHANGED <<fs, clock, keeps_mtime, resolved, resolves, other, history>>

\* Mutant of LocalBranch: an entry missing from cloud_map is left alone.
LocalBranchDownloadOnly(p) ==
    IF p \in DOMAIN cloud_map
    THEN IF local_map[p] # cloud_map[p]
         THEN ResolveDivergent(auto_resolve, local_map[p], cloud_map[p])
         ELSE "identical"
    ELSE "identical"

\* Mutant of LocalBranch: two files with equal times count as identical only
\* when their sizes are equal too.
LocalBranchBySize(p) ==
    IF p \in DOMAIN cloud_map
    THEN IF \/ local_map[p] # cloud_map[p]
            \/ Len(fs["local"].nodes[p].content) # Len(fs["cloud"].nodes[p].content)
         THEN ResolveDivergent(auto_resolve, local_map[p], cloud_map[p])
         ELSE "identical"
    ELSE "local_only"

\* The branch of the first loop's body that handles p.
LocalBranch(p) ==
    IF p \in DOMAIN cloud_map
    THEN IF local_map[p] # cloud_map[p]
         THEN ResolveDivergent(auto_resolve, local_map[p], cloud_map[p])
         ELSE "identical"
    ELSE "local_only"

\* The class of the path that the branch stands for.
ClassOf(branch) ==
    IF branch \in {"to_cloud", "to_local", "conflict"} THEN "divergent" ELSE branch

\* Mutant of AfterTransfer: a failed transfer is skipped and the run goes on.
AfterTransferSkippingFailures(p, ss, t) ==
    /\ fs' = t.fs
    /\ IF t.ok
       THEN /\ files_synced' = files_synced + 1
            /\ copied' = [copied EXCEPT
                            ![p] = IF ss = "local"
                                   THEN [@ EXCEPT !.to_cloud = @ + 1]
                                   ELSE [@ EXCEPT !.to_local = @ + 1]]
            /\ UNCHANGED <<pc, result, local_map, cloud_map>>
       ELSE UNCHANGED <<files_synced, copied, pc, result, local_map, cloud_map>>

\* Mutant of AfterTransfer: only the copies towards cloud are counted.
AfterTransferUploadsCounted(p, ss, t) ==
    /\ fs' = t.fs
    /\ IF t.ok
       THEN /\ files_synced' = IF ss = "local" THEN files_synced + 1
                                ELSE files_synced
            /\ copied' = [copied EXCEPT
                            ![p] = IF ss = "local"
                                   THEN [@ EXCEPT !.to_cloud = @ + 1]
                                   ELSE [@ EXCEPT !.to_local = @ + 1]]
            /\ UNCHANGED <<pc, result, local_map, cloud_map>>
       ELSE /\ Return(Err("io"))
            /\ UNCHANGED <<files_synced, copied>>

\* A transfer of p from side ss went through (t.ok) or failed.
AfterTransfer(p, ss, t) ==
    /\ fs' = t.fs
    /\ IF t.ok
       THEN /\ files_synced' = files_synced + 1
            /\ copied' = [copied EXCEPT
                            ![p] = IF ss = "local"
                                   THEN [@ EXCEPT !.to_cloud = @ + 1]
                                   ELSE [@ EXCEPT !.to_local = @ + 1]]
            /\ UNCHANGED <<pc, result, local_map, cloud_map>>
       ELSE /\ Return(Err("io"))
            /\ UNCHANGED <<files_synced, copied>>

\* One iteration of the first loop (for (relative_path, local_file) in
\* &local_map), for an entry p taken in any order.
SyncLocalEntry(p, fault) ==
    /\ pc = "syncing"
    /\ p \in todo_local
    /\ LET branch == LocalBranch(p) IN
       /\ handled' = [handled EXCEPT ![p] = @ \cup {ClassOf(branch)}]
       /\ CASE branch = "to_cloud" ->
                 /\ AfterTransfer(p, "local", Transfer(fs, "local", p, FALSE, fault))
                 /\ UNCHANGED conflicts
            [] branch = "to_local" ->
                 /\ AfterTransfer(p, "cloud", Transfer(fs, "cloud", p, FALSE, fault))
                 /\ UNCHANGED conflicts
            [] branch = "local_only" ->
                 /\ AfterTransfer(p, "local", Transfer(fs, "local", p, TRUE, fault))
                 /\ UNCHANGED conflicts
            [] branch = "conflict" ->
                 /\ IF fault = "metadata"
                    THEN /\ Return(Err("io"))
                         /\ UNCHANGED conflicts
                    ELSE /\ conflicts' = Append(conflicts, FileConflict(fs, p))
                         /\ UNCHANGED <<pc, result, local_map, cloud_map>>
                 /\ UNCHANGED <<fs, files_synced, copied>>
            [] branch = "identical" ->
                 UNCHANGED <<fs, files_synced, copied, conflicts, pc, result,
                             local_map, cloud_map>>
    /\ IF pc' = "syncing"
       THEN /\ todo_local' = todo_local \ {p}
            /\ UNCHANGED todo_cloud
       ELSE TRUE
    /\ UNCHANGED <<clock, keeps_mtime, auto_resolve, pre, last, external, resolved,
                   runs, resolves, other, history>>

\* Mutant of CloudOnly: entries missing locally are copied only while no
\* conflict has been collected.
CloudOnlyIfNoConflict(p) == p \notin DOMAIN local_map /\ conflicts = <<>>

\* Mutant of CloudOnly: the second loop copies every entry of cloud_map.
CloudOnlyUnchecked(p) == p \in DOMAIN cloud_map

\* Mutant of CloudOnly: entries that are newer in cloud are downloaded too.
CloudOnlyOrNewer(p) ==
    \/ p \notin DOMAIN local_map
    \/ (p \in DOMAIN cloud_map /\ local_map[p] < cloud_map[p])

\* Mutant of CloudOnly: no entry of cloud_map is downloaded.
CloudOnlyNever(p) == p \notin DOMAIN cloud_map

\* The test of the second loop: the entry is in cloud_map only.
CloudOnly(p) == p \notin DOMAIN local_map

\* One iteration of the second loop (for (relative_path, cloud_file) in
\* &cloud_map), which starts when the first loop has ended.
SyncCloudEntry(p, fault) ==
    /\ pc = "syncing"
    /\ todo_local = {}
    /\ p \in todo_cloud
    /\ IF CloudOnly(p)
       THEN /\ handled' = [handled EXCEPT ![p] = @ \cup {"cloud_only"}]
            /\ AfterTransfer(p, "cloud", Transfer(fs, "cloud", p, TRUE, fault))
       ELSE UNCHANGED <<handled, fs, files_synced, copied, pc, result,
                        local_map, cloud_map>>
    /\ IF pc' = "syncing"
       THEN /\ todo_cloud' = todo_cloud \ {p}
            /\ UNCHANGED todo_local
       ELSE TRUE
    /\ UNCHANGED <<clock, keeps_mtime, auto_resolve, conflicts, pre, last,
                   external, resolved, runs, resolves, other, history>>

\* The end of sync_game_saves: Ok(SyncResult { .. }).
SyncFinish ==
    /\ pc = "syncing"
    /\ todo_local = {}
    /\ todo_cloud = {}
    /\ Return(SyncResult(files_synced, conflicts))
    /\ UNCHANGED <<fs, clock, keeps_mtime, auto_resolve, files_synced, conflicts,
                   pre, copied, handled, last, external, resolved, runs, resolves,
                   other, history>>

\* resolve_conflict(local_path, cloud_path, use_local) for the two files at
\* the relative path p.
ResolveConflict(p, use_local, fault) ==
    /\ pc = "idle"
    /\ resolves' = resolves + 1
    /\ LET ss == IF use_local THEN "local" ELSE "cloud"
           t == Transfer(fs, ss, p, FALSE, fault)
       IN  /\ fs' = t.fs
           /\ resolved' = IF t.ok THEN "ok" ELSE "err"
           /\ external' = (external \/ fs' # fs)
    /\ UNCHANGED <<clock, keeps_mtime, pc, auto_resolve, local_map, cloud_map,
                   todo_local, todo_cloud, files_synced, conflicts, result, pre,
                   copied, handled, last, runs, other, history>>

\* Time passes between two commands.
Tick ==
    /\ pc = "idle"
    /\ runs + resolves > 0
    /\ clock < MaxTime + 1 + MaxTicks
    /\ clock' = clock + 1
    /\ UNCHANGED <<fs, keeps_mtime, pc, auto_resolve, local_map, cloud_map,
                   todo_local, todo_cloud, files_synced, conflicts, result, pre,
                   copied, handled, last, external, resolved, runs, resolves,
                   other, history>>

\* The game_id arguments that are tried, and the limit arguments of
\* get_sync_history (a negative LIMIT is no limit in SQLite).
GameIds == {"g1", "g2"}
Limits == {None, Some(1), Some(0 - 1)}
DbFaults == {"none", "open"}

\* Utc::now().to_rfc3339(): a text whose order is the order of the times.
to_rfc3339(now) == <<"rfc3339", now>>

\* What a history command returns: Err, or Ok with the row id, the entries
\* or the number of deleted rows.
HistoryErr(cmd) == [cmd |-> cmd, ok |-> FALSE, id |-> 0, entries |-> <<>>, deleted |-> 0]
HistoryOk(cmd, id, entries, deleted) ==
    [cmd |-> cmd, ok |-> TRUE, id |-> id, entries |-> entries, deleted |-> deleted]

\* log_sync_operation: one INSERT, whose id is the next AUTOINCREMENT value
\* and whose timestamp is the time of the call. Of the nine columns the model
\* keeps id, game_id, timestamp, files_synced and success.
LogSyncOperation(game_id, n, success, now, fault) ==
    /\ pc = "idle"
    /\ now \in {clock, clock + 1}
    /\ now <= MaxTime + 1 + MaxTicks
    /\ clock' = now
    /\ IF fault = "open"
       THEN history' = [history EXCEPT !.returned = HistoryErr("log")]
       ELSE LET id == history.sqlite_sequence + 1
                row == [id |-> id, game_id |-> game_id,
                        timestamp |-> to_rfc3339(now),
                        files_synced |-> n, success |-> success]
            IN  history' = [sync_history |-> history.sync_history \cup {row},
                            sqlite_sequence |-> id,
                            returned |-> HistoryOk("log", id, <<>>, 0)]
    /\ UNCHANGED <<fs, keeps_mtime, pc, auto_resolve, local_map, cloud_map,
                   todo_local, todo_cloud, files_synced, conflicts, result, pre,
                   copied, handled, last, external, resolved, runs, resolves,
                   other>>

\* The rows a query selects: all of them, or those of one game.
Selected(rows, game_id) ==
    IF game_id = None THEN rows ELSE {r \in rows : r.game_id = game_id[1]}

\* ORDER BY timestamp DESC: the orders of rows that SQLite may produce.
OrderByTimestampDesc(rows) ==
    {q \in [1..Cardinality(rows) -> rows] :
        /\ \A i, j \in DOMAIN q : i # j => q[i] # q[j]
        /\ \A i, j \in DOMAIN q : i < j => q[i].timestamp[2] >= q[j].timestamp[2]}

\* LIMIT n, with limit.unwrap_or(100).
Limit(q, limit) ==
    LET n == IF limit = None THEN 100 ELSE limit[1]
    IN  IF n < 0 \/ n >= Len(q) THEN q ELSE SubSeq(q, 1, n)

\* get_sync_history(game_id, limit).
GetSyncHistory(game_id, limit, fault) ==
    /\ pc = "idle"
    /\ IF fault = "open"
       THEN history' = [history EXCEPT !.returned = HistoryErr("get")]
       ELSE \E q \in OrderByTimestampDesc(Selected(history.sync_history, game_id)) :
               history' = [history EXCEPT
                             !.returned = HistoryOk("get", 0, Limit(q, limit), 0)]
    /\ UNCHANGED <<fs, clock, keeps_mtime, pc, auto_resolve, local_map, cloud_map,
                   todo_local, todo_cloud, files_synced, conflicts, result, pre,
                   copied, handled, last, external, resolved, runs, resolves,
                   other>>

\* clear_sync_history(game_id): DELETE FROM sync_history [WHERE game_id = ?1].
ClearSyncHistory(game_id, fault) ==
    /\ pc = "idle"
    /\ IF fault = "open"
       THEN history' = [history EXCEPT !.returned = HistoryErr("clear")]
       ELSE LET gone == Selected(history.sync_history, game_id)
            IN  history' = [history EXCEPT
                              !.sync_history = @ \ gone,
                              !.returned = HistoryOk("clear", 0, <<>>,
                                                     Cardinality(gone))]
    /\ UNCHANGED <<fs, clock, keeps_mtime, pc, auto_resolve, local_map, cloud_map,
                   todo_local, todo_cloud, files_synced, conflicts, result, pre,
                   copied, handled, last, external, resolved, runs, resolves,
                   other>>

\* ---- The earlier revision of the engine (desktop-app) ----

\* Mutant of LocalBranchV1: of two files with equal times the local one is
\* copied to cloud.
LocalBranchV1TiesToCloud(p) ==
    IF p \in DOMAIN cloud_map
    THEN IF local_map[p] >= cloud_map[p] THEN "to_cloud"
         ELSE IF cloud_map[p] > local_map[p] THEN "to_local"
         ELSE "identical"
    ELSE "local_only"

\* The branch of the earlier revision's first loop that handles p: the newer
\* of two files is copied, and there is no policy and no conflict.
LocalBranchV1(p) ==
    IF p \in DOMAIN cloud_map
    THEN IF local_map[p] > cloud_map[p] THEN "to_cloud"
         ELSE IF cloud_map[p] > local_map[p] THEN "to_local"
         ELSE "identical"
    ELSE "local_only"

\* The earlier revision's SyncResult { success: true, message, files_synced }:
\* it has no conflicts field.
SyncResultV1(n) ==
    [kind |-> "ok", error |-> "", success |-> TRUE,
     message |-> <<"Successfully synced", n>>, files_synced |-> n]

\* The earlier revision up to its first loop: the same checks, indexes and
\* maps, with no auto_resolve argument.
SyncStartV1(fault) == SyncStart(None, fault)

\* One iteration of the earlier revision's first loop.
SyncLocalEntryV1(p, fault) ==
    /\ pc = "syncing"
    /\ p \in todo_local
    /\ LET branch == LocalBranchV1(p) IN
       /\ handled' = [handled EXCEPT ![p] = @ \cup {ClassOf(branch)}]
       /\ CASE branch = "to_cloud" ->
                 AfterTransfer(p, "local", Transfer(fs, "local", p, FALSE, fault))
            [] branch = "to_local" ->
                 AfterTransfer(p, "cloud", Transfer(fs, "cloud", p, FALSE, fault))
            [] branch = "local_only" ->
                 AfterTransfer(p, "local", Transfer(fs, "local", p, TRUE, fault))
            [] branch = "identical" ->
                 UNCHANGED <<fs, files_synced, copied, pc, result,
                             local_map, cloud_map>>
    /\ IF pc' = "syncing"
       THEN /\ todo_local' = todo_local \ {p}
            /\ UNCHANGED todo_cloud
       ELSE TRUE
    /\ UNCHANGED <<clock, keeps_mtime, auto_resolve, conflicts, pre, last,
                   external, resolved, runs, resolves, other, history>>

\* One iteration of the earlier revision's second loop: the same code.
SyncCloudEntryV1(p, fault) == SyncCloudEntry(p, fault)

\* The end of the earlier revision.
SyncFinishV1 ==
    /\ pc = "syncing"
    /\ todo_local = {}
    /\ todo_cloud = {}
    /\ Return(SyncResultV1(files_synced))
    /\ UNCHANGED <<fs, clock, keeps_mtime, auto_resolve, files_synced, conflicts,
                   pre, copied, handled, last, external, resolved, runs, resolves,
                   other, history>>

\* The invocation that is taking steps: its two roots, its arguments, its
\* locals and what it returned.
Current ==
    [id |-> 3 - other.id, interleaved |-> other.interleaved,
     fs |-> fs, pc |-> pc, auto_resolve |-> auto_resolve,
     local_map |-> local_map, cloud_map |-> cloud_map,
     todo_local |-> todo_local, todo_cloud |-> todo_cloud,
     files_synced |-> files_synced, conflicts |-> conflicts, result |-> result,
     pre |-> pre, copied |-> copied, handled |-> handled, runs |-> runs]

\* Mutant of Switch: files_synced is one counter shared by the invocations.
SwitchSharedCounter ==
    /\ other.id # 0
    /\ other' = [Current EXCEPT
                   !.interleaved = @ \/ (pc = "syncing" /\ other.pc = "syncing")]
    /\ fs' = other.fs
    /\ pc' = other.pc
    /\ auto_resolve' = other.auto_resolve
    /\ local_map' = other.local_map
    /\ cloud_map' = other.cloud_map
    /\ todo_local' = other.todo_local
    /\ todo_cloud' = other.todo_cloud
    /\ files_synced' = files_synced
    /\ conflicts' = other.conflicts
    /\ result' = other.result
    /\ pre' = other.pre
    /\ copied' = other.copied
    /\ handled' = other.handled
    /\ runs' = other.runs
    /\ UNCHANGED <<clock, keeps_mtime, last, external, resolved, resolves,
                   history>>

\* The thread of the other invocation is scheduled: it goes on from where it
\* stopped, on its own roots and with its own locals, and the invocation
\* that was taking steps waits. Both see the same clock and platform.
Switch ==
    /\ other.id # 0
    /\ other' = [Current EXCEPT
                   !.interleaved = @ \/ (pc = "syncing" /\ other.pc = "syncing")]
    /\ fs' = other.fs
    /\ pc' = other.pc
    /\ auto_resolve' = other.auto_resolve
    /\ local_map' = other.local_map
    /\ cloud_map' = other.cloud_map
    /\ todo_local' = other.todo_local
    /\ todo_cloud' = other.todo_cloud
    /\ files_synced' = other.files_synced
    /\ conflicts' = other.conflicts
    /\ result' = other.result
    /\ pre' = other.pre
    /\ copied' = other.copied
    /\ handled' = other.handled
    /\ runs' = other.runs
    /\ UNCHANGED <<clock, keeps_mtime, last, external, resolved, resolves,
                   history>>

\* One call of sync_game_saves, from any initial file system.
Next ==
    \/ \E policy \in Policies, fault \in IndexFaults :
          runs = 0 /\ SyncStart(policy, fault)
    \/ \E p \in Paths, fault \in EntryFaults : SyncLocalEntry(p, fault)
    \/ \E p \in Paths, fault \in EntryFaults : SyncCloudEntry(p, fault)
    \/ SyncFinish

Spec == Init /\ [][Next]_vars

\* Up to MaxRuns calls of sync_game_saves one after the other, with nothing
\* else touching the two roots.
NextRepeat ==
    \/ \E policy \in Policies, fault \in IndexFaults :
          runs < MaxRuns /\ SyncStart(policy, fault)
    \/ \E p \in Paths, fault \in EntryFaults : SyncLocalEntry(p, fault)
    \/ \E p \in Paths, fault \in EntryFaults : SyncCloudEntry(p, fault)
    \/ SyncFinish
    \/ Tick

SpecRepeat == Init /\ [][NextRepeat]_vars

\* Calls of sync_game_saves and of resolve_conflict in any order.
NextResolve ==
    \/ \E policy \in Policies, fault \in IndexFaults :
          runs < MaxRuns /\ SyncStart(policy, fault)
    \/ \E p \in Paths, fault \in EntryFaults : SyncLocalEntry(p, fault)
    \/ \E p \in Paths, fault \in EntryFaults : SyncCloudEntry(p, fault)
    \/ SyncFinish
    \/ \E p \in Paths, use_local \in BOOLEAN, fault \in CopyFaults :
          resolves < MaxResolves /\ ResolveConflict(p, use_local, fault)
    \/ Tick

SpecResolve == Init /\ [][NextResolve]_vars

\* One call of sync_game_saves and up to MaxResolves calls of
\* resolve_conflict, before or after it.
NextResolveOnce ==
    \/ \E policy \in Policies, fault \in IndexFaults :
          runs = 0 /\ SyncStart(policy, fault)
    \/ \E p \in Paths, fault \in EntryFaults : SyncLocalEntry(p, fault)
    \/ \E p \in Paths, fault \in EntryFaults : SyncCloudEntry(p, fault)
    \/ SyncFinish
    \/ \E p \in Paths, use_local \in BOOLEAN, fault \in CopyFaults :
          resolves < MaxResolves /\ ResolveConflict(p, use_local, fault)
    \/ Tick

SpecResolveOnce == Init /\ [][NextResolveOnce]_vars

\* The roots of the first of two concurrent invocations: directories with
\* readable files at save and slot/save, the latter of time 1.
FirstRoots(side) ==
    {r \in InitRoots(side) :
        /\ r.kind = "dir"
        /\ r.nodes[<<"slot">>].kind # "file"
        /\ r.nodes[<<"slot">>].kind = "dir" =>
              r.nodes[<<"slot", "save">>] \in
                  {FileNode(1, TRUE, InitContent(side, <<"slot", "save">>))}
        /\ \A p \in Paths : r.nodes[p].kind = "file" => r.nodes[p].mtime_ok}

\* The roots of the second one: directories with at most a readable save.
SecondRoots(side) ==
    {r \in InitRoots(side) :
        /\ r.kind = "dir"
        /\ r.nodes[<<"slot">>].kind = "none"
        /\ r.nodes[<<"save">>].kind = "file" => r.nodes[<<"save">>].mtime_ok}

\* Two invocations of sync_game_saves on four different roots, none inside
\* another, before either has started.
InitConcurrent ==
    /\ \E l \in FirstRoots("local"), c \in FirstRoots("cloud") :
          fs = [side \in Sides |-> IF side = "local" THEN l ELSE c]
    /\ \E l \in SecondRoots("local"), c \in SecondRoots("cloud") :
          LET f == [side \in Sides |-> IF side = "local" THEN l ELSE c]
          IN  other = [NoOther EXCEPT !.id = 2, !.fs = f, !.pre = f]
    /\ clock = MaxTime + 1
    /\ keeps_mtime \in BOOLEAN
    /\ pc = "idle"
    /\ auto_resolve = None
    /\ local_map = <<>>
    /\ cloud_map = <<>>
    /\ todo_local = {}
    /\ todo_cloud = {}
    /\ files_synced = 0
    /\ conflicts = <<>>
    /\ result = NoResult
    /\ pre = fs
    /\ copied = NoCopies
    /\ handled = NotHandled
    /\ last = NoLast
    /\ external = FALSE
    /\ resolved = "none"
    /\ runs = 0
    /\ resolves = 0
    /\ history = NoHistory

\* The steps of the two invocations in any interleaving: each is called
\* once, and the scheduler may switch between them before any step.
NextConcurrent ==
    \/ \E policy \in Policies, fault \in IndexFaults :
          runs = 0 /\ SyncStart(policy, fault)
    \/ \E p \in Paths, fault \in EntryFaults : SyncLocalEntry(p, fault)
    \/ \E p \in Paths, fault \in EntryFaults : SyncCloudEntry(p, fault)
    \/ SyncFinish
    \/ Switch

SpecConcurrent == InitConcurrent /\ [][NextConcurrent]_vars

\* The history commands and one call of sync_game_saves, in any order, on
\* two roots that are directories with a readable save and nothing else.
InitHistory ==
    /\ Init
    /\ \A side \in Sides :
          fs[side] \in SecondRoots(side) /\ fs[side].nodes[<<"save">>].kind = "file"

NextHistory ==
    \/ \E policy \in Policies, fault \in IndexFaults :
          runs = 0 /\ SyncStart(policy, fault)
    \/ \E p \in Paths, fault \in EntryFaults : SyncLocalEntry(p, fault)
    \/ \E p \in Paths, fault \in EntryFaults : SyncCloudEntry(p, fault)
    \/ SyncFinish
    \/ \E game_id \in GameIds, n \in {1}, success \in BOOLEAN,
          now \in {clock, clock + 1}, fault \in DbFaults :
          /\ history.sqlite_sequence < MaxLogs
          /\ LogSyncOperation(game_id, n, success, now, fault)
    \/ \E game_id \in {None} \cup {Some(g) : g \in GameIds}, limit \in Limits,
          fault \in DbFaults : GetSyncHistory(game_id, limit, fault)
    \/ \E game_id \in {None} \cup {Some(g) : g \in GameIds}, fault \in DbFaults :
          ClearSyncHistory(game_id, fault)

SpecHistory == InitHistory /\ [][NextHistory]_vars

\* Calls of sync_game_saves and of resolve_conflict in any order, on two
\* roots that are directories with at most a readable save.
InitManual ==
    /\ Init
    /\ \A side \in Sides : fs[side] \in SecondRoots(side)

SpecManual == InitManual /\ [][NextResolve]_vars

\* The current engine with auto_resolve = "newer" (invocation 1) and the
\* earlier revision (invocation 2), each called once on its own copy of the
\* same two trees, with no I/O operation made to fail.
NoFaults == {"none"}

InitRevisions ==
    /\ \E l \in InitRoots("local"), c \in InitRoots("cloud") :
          fs = [side \in Sides |-> IF side = "local" THEN l ELSE c]
    /\ other = [NoOther EXCEPT !.id = 2, !.fs = fs, !.pre = fs]
    /\ clock = MaxTime + 1
    /\ keeps_mtime \in BOOLEAN
    /\ pc = "idle"
    /\ auto_resolve = None
    /\ local_map = <<>>
    /\ cloud_map = <<>>
    /\ todo_local = {}
    /\ todo_cloud = {}
    /\ files_synced = 0
    /\ conflicts = <<>>
    /\ result = NoResult
    /\ pre = fs
    /\ copied = NoCopies
    /\ handled = NotHandled
    /\ last = NoLast
    /\ external = FALSE
    /\ resolved = "none"
    /\ runs = 0
    /\ resolves = 0
    /\ history = NoHistory

\* The steps of the two revisions in any interleaving.
NextRevisions ==
    \/ \E fault \in NoFaults :
          other.id = 2 /\ runs = 0 /\ SyncStart(Some("newer"), fault)
    \/ \E p \in Paths, fault \in NoFaults :
          other.id = 2 /\ SyncLocalEntry(p, fault)
    \/ \E p \in Paths, fault \in NoFaults :
          other.id = 2 /\ SyncCloudEntry(p, fault)
    \/ other.id = 2 /\ SyncFinish
    \/ \E fault \in NoFaults :
          other.id = 1 /\ runs = 0 /\ SyncStartV1(fault)
    \/ \E p \in Paths, fault \in NoFaults :
          other.id = 1 /\ SyncLocalEntryV1(p, fault)
    \/ \E p \in Paths, fault \in NoFaults :
          other.id = 1 /\ SyncCloudEntryV1(p, fault)
    \/ other.id = 1 /\ SyncFinishV1
    \/ Switch

SpecRevisions == InitRevisions /\ [][NextRevisions]_vars

----------------------------------------------------------------------------
\* Vocabulary of the properties.

\* sync_game_saves has returned (an outcome or an error).
Returned == pc = "idle" /\ runs > 0

\* sync_game_saves has returned Ok(SyncResult).
Outcome == Returned /\ result.kind = "ok"

\* p was a regular file under the root of side when the run started.
PreFile(side, p) == pre[side].kind = "dir" /\ pre[side].nodes[p].kind = "file"

\* p is a regular file under the root of side now.
IsFile(side, p) == fs[side].kind = "dir" /\ fs[side].nodes[p].kind = "file"

\* The two indexes of the trees the run started from.
PreLocal == IndexedPaths(pre, "local")
PreCloud == IndexedPaths(pre, "cloud")

\* p was in both indexes with different modification times.
PreDivergent(p) ==
    /\ p \in PreLocal \cap PreCloud
    /\ pre["local"].nodes[p].modified # pre["cloud"].nodes[p].modified

\* The relative paths of the reported conflicts.
ConflictPaths(cs) == {cs[i].relative_path : i \in 1..Len(cs)}

\* The two files at p are as they were when the run started.
Untouched(p) == \A side \in Sides : fs[side].nodes[p] = pre[side].nodes[p]

\* The number of copies the run made.
RECURSIVE SumCopies(_)
SumCopies(ps) ==
    IF ps = {} THEN 0
    ELSE LET p == CHOOSE q \in ps : TRUE
         IN  copied[p].to_cloud + copied[p].to_local + SumCopies(ps \ {p})

----------------------------------------------------------------------------
\* C1 (as claimed): when a run has returned success = true and nothing else
\* has changed either root, the following run with the same arguments
\* returns files_synced = 0 and no conflicts.
C1_Idempotence ==
    (Outcome /\ last.ran /\ last.success /\ last.quiet
        /\ last.auto_resolve = auto_resolve)
    => (result.files_synced = 0 /\ result.conflicts = <<>>)

\* C2 (as claimed): after a run that returned success = true, every path
\* that was a file in exactly one root is a file in both roots, holding the
\* bytes that one side had before the run.
C2_CompletenessAnyFile ==
    (Outcome /\ result.success) =>
        \A side \in Sides, p \in Paths :
            (PreFile(side, p) /\ ~PreFile(Other(side), p)) =>
                /\ IsFile("local", p) /\ IsFile("cloud", p)
                /\ fs["local"].nodes[p].content = pre[side].nodes[p].content
                /\ fs["cloud"].nodes[p].content = pre[side].nodes[p].content

\* C2 (amended): the same for every path that was a file in exactly one root
\* and whose modification time could be read, so that it was indexed.
C2_Completeness ==
    (Outcome /\ result.success) =>
        \A side \in Sides, p \in Paths :
            (PreFile(side, p) /\ pre[side].nodes[p].mtime_ok
                /\ ~PreFile(Other(side), p)) =>
                /\ IsFile("local", p) /\ IsFile("cloud", p)
                /\ fs["local"].nodes[p].content = pre[side].nodes[p].content
                /\ fs["cloud"].nodes[p].content = pre[side].nodes[p].content

\* A successful run has copied a one-sided nested file to the other root.
C2_Witness ==
    /\ Outcome /\ result.success
    /\ PreFile("local", <<"slot", "save">>)
    /\ pre["cloud"].nodes[<<"slot">>].kind = "none"
    /\ PreFile("cloud", <<"save">>) /\ ~PreFile("local", <<"save">>)
    /\ copied[<<"slot", "save">>].to_cloud = 1
    /\ copied[<<"save">>].to_local = 1

\* C3: with auto_resolve absent or unrecognized, no path that was in both
\* indexes with different modification times is copied or overwritten at any
\* point of the run, and every outcome the run returns reports each of them
\* as a conflict.
C3_FailSafe ==
    (runs > 0 /\ auto_resolve \notin {Some("local"), Some("cloud"), Some("newer")}) =>
        \A p \in Paths : PreDivergent(p) =>
            /\ Untouched(p)
            /\ copied[p] = [to_cloud |-> 0, to_local |-> 0]
            /\ Outcome => p \in ConflictPaths(result.conflicts)

\* An unrecognized policy string has met a divergent path, and the run has
\* returned.
C3_Witness ==
    /\ Outcome
    /\ auto_resolve = Some("Local")
    /\ PreDivergent(<<"save">>)
    /\ ~result.success

\* C4: in every outcome, each path of the union of the two indexes was
\* handled by exactly one branch, the one of its class: local_only (one copy
\* to cloud), cloud_only (one copy to local), identical (no copy, no
\* conflict) or divergent (one copy or one conflict); before the run ends no
\* path has been handled twice, and paths outside the union are not handled.
C4_Classification ==
    /\ \A p \in Paths : Cardinality(handled[p]) <= 1
    /\ \A p \in Paths \ (PreLocal \cup PreCloud) : runs > 0 => handled[p] = {}
    /\ Outcome =>
          \A p \in PreLocal \cup PreCloud :
              LET n == copied[p].to_cloud + copied[p].to_local
                  reported == p \in ConflictPaths(result.conflicts)
              IN  /\ Cardinality(handled[p]) = 1
                  /\ (p \in PreLocal \ PreCloud) =>
                        (handled[p] = {"local_only"} /\ copied[p].to_cloud = 1
                            /\ n = 1 /\ ~reported)
                  /\ (p \in PreCloud \ PreLocal) =>
                        (handled[p] = {"cloud_only"} /\ copied[p].to_local = 1
                            /\ n = 1 /\ ~reported)
                  /\ (p \in PreLocal \cap PreCloud /\ ~PreDivergent(p)) =>
                        (handled[p] = {"identical"} /\ n = 0 /\ ~reported)
                  /\ PreDivergent(p) =>
                        (handled[p] = {"divergent"} /\ (n = 1) # reported)

\* An outcome of a run that handled a divergent path and a cloud-only one.
C4_Witness ==
    /\ Outcome
    /\ handled[<<"save">>] = {"divergent"}
    /\ handled[<<"slot", "save">>] = {"cloud_only"}
    /\ copied[<<"save">>].to_cloud = 1

\* C5: in every outcome, success is true exactly when the conflicts list is
\* empty, and the list returned is the list the run collected.
C5_SuccessIffNoConflicts ==
    Outcome =>
        /\ result.success <=> (Len(result.conflicts) = 0)
        /\ result.conflicts = conflicts

\* An outcome with a conflict and success = false.
C5_Witness ==
    /\ Outcome
    /\ Len(result.conflicts) = 2
    /\ ~result.success
    /\ result.files_synced = 0

\* C6: a run whose local root is missing returns the error that names the
\* local path, also when the cloud root is missing too; a run whose local
\* root exists and whose cloud root is missing returns the error that names
\* the cloud path; neither enters the loops, and both leave the two trees as
\* they were.
C6_RootNotFound ==
    (runs > 0 /\ RootCheck(pre) # "ok") =>
        /\ pc = "idle"
        /\ fs = pre
        /\ files_synced = 0 /\ copied = NoCopies
        /\ pre["local"].kind = "missing" => result = Err("local")
        /\ (pre["local"].kind # "missing" /\ pre["cloud"].kind = "missing") =>
              result = Err("cloud")

\* Both roots are missing and the run has returned the local error.
C6_Witness ==
    /\ Returned
    /\ pre["local"].kind = "missing"
    /\ pre["cloud"].kind = "missing"
    /\ result.kind = "err"
    /\ result.error = "local"

\* C7 (as claimed): a run one of whose roots exists and is a regular file
\* returns an error, not a SyncResult, and touches neither tree.
C7_NotADirectoryFails ==
    (Returned /\ RootCheck(pre) = "ok"
        /\ (pre["local"].kind = "file" \/ pre["cloud"].kind = "file"))
    => (result.kind = "err" /\ fs = pre)

\* C8: in every outcome of a run with auto_resolve = "local", each path that
\* was divergent has been copied once from local to cloud and not the other
\* way, whichever side was newer: the cloud file holds the bytes the local
\* file had, the local file is as it was, the path is not among the
\* conflicts, and files_synced counts every copy of the run once.
C8_PreferLocal ==
    (runs > 0 /\ auto_resolve = Some("local")) =>
        /\ \A p \in Paths : PreDivergent(p) => copied[p].to_local = 0
        /\ Outcome =>
              /\ result.files_synced = SumCopies(Paths)
              /\ \A p \in Paths : PreDivergent(p) =>
                    /\ copied[p] = [to_cloud |-> 1, to_local |-> 0]
                    /\ fs["cloud"].nodes[p].kind = "file"
                    /\ fs["cloud"].nodes[p].content = pre["local"].nodes[p].content
                    /\ fs["local"].nodes[p] = pre["local"].nodes[p]
                    /\ p \notin ConflictPaths(result.conflicts)

\* An outcome under "local" where the cloud file was the newer one.
C8_Witness ==
    /\ Outcome
    /\ auto_resolve = Some("local")
    /\ PreDivergent(<<"save">>)
    /\ pre["cloud"].nodes[<<"save">>].modified > pre["local"].nodes[<<"save">>].modified
    /\ fs["cloud"].nodes[<<"save">>].content = <<"local", "save">>
    /\ result.files_synced = 1

\* C9: in every outcome of a run with auto_resolve = "cloud", each path that
\* was divergent has been copied once from cloud to local and not the other
\* way, whichever side was newer: the local file holds the bytes the cloud
\* file had, the cloud file is as it was, and the path is not among the
\* conflicts.
C9_PreferCloud ==
    (runs > 0 /\ auto_resolve = Some("cloud")) =>
        /\ \A p \in Paths : PreDivergent(p) => copied[p].to_cloud = 0
        /\ Outcome =>
              \A p \in Paths : PreDivergent(p) =>
                  /\ copied[p] = [to_cloud |-> 0, to_local |-> 1]
                  /\ fs["local"].nodes[p].kind = "file"
                  /\ fs["local"].nodes[p].content = pre["cloud"].nodes[p].content
                  /\ fs["cloud"].nodes[p] = pre["cloud"].nodes[p]
                  /\ p \notin ConflictPaths(result.conflicts)

\* An outcome under "cloud" where the local file was the newer one.
C9_Witness ==
    /\ Outcome
    /\ auto_resolve = Some("cloud")
    /\ PreDivergent(<<"slot", "save">>)
    /\ pre["local"].nodes[<<"slot", "save">>].modified
          > pre["cloud"].nodes[<<"slot", "save">>].modified
    /\ fs["local"].nodes[<<"slot", "save">>].content
          = InitContent("cloud", <<"slot", "save">>)

\* C10: in every outcome of a run with auto_resolve = "newer", success is
\* true and each path that was divergent has been copied once, from the side
\* whose modification time was strictly greater to the other side, which now
\* holds the source's bytes; with equal times the resolver answers cloud to
\* local.
C10_PreferNewer ==
    /\ \A t \in 1..(MaxTime + 1 + MaxTicks) :
          ResolveDivergent(Some("newer"), t, t) = "to_local"
    /\ (Outcome /\ auto_resolve = Some("newer")) =>
          /\ result.success
          /\ \A p \in Paths : PreDivergent(p) =>
                LET src == IF pre["local"].nodes[p].modified
                                > pre["cloud"].nodes[p].modified
                           THEN "local" ELSE "cloud"
                    dst == Other(src)
                IN  /\ copied[p] = IF src = "local"
                                   THEN [to_cloud |-> 1, to_local |-> 0]
                                   ELSE [to_cloud |-> 0, to_local |-> 1]
                    /\ pre[src].nodes[p].modified > pre[dst].nodes[p].modified
                    /\ fs[dst].nodes[p].kind = "file"
                    /\ fs[dst].nodes[p].content = pre[src].nodes[p].content
                    /\ fs[src].nodes[p] = pre[src].nodes[p]

\* An outcome under "newer" where the local file was the newer one and has
\* overwritten the cloud file.
C10_Witness ==
    /\ Outcome
    /\ auto_resolve = Some("newer")
    /\ PreDivergent(<<"save">>)
    /\ pre["local"].nodes[<<"save">>].modified > pre["cloud"].nodes[<<"save">>].modified
    /\ fs["cloud"].nodes[<<"save">>].content = <<"local", "save">>
    /\ result.success

\* p was in both indexes with equal modification times.
PreIdentical(p) ==
    /\ p \in PreLocal \cap PreCloud
    /\ pre["local"].nodes[p].modified = pre["cloud"].nodes[p].modified

\* C11: for every policy, a path that was in both indexes with equal
\* modification times is never copied or overwritten during the run, whatever
\* the two files hold, and in every outcome it is not among the conflicts
\* and adds nothing to files_synced.
C11_TimestampOnlyIdentity ==
    runs > 0 =>
        \A p \in Paths : PreIdentical(p) =>
            /\ Untouched(p)
            /\ copied[p] = [to_cloud |-> 0, to_local |-> 0]
            /\ Outcome =>
                  /\ p \notin ConflictPaths(result.conflicts)
                  /\ result.files_synced = SumCopies(Paths \ {p})

\* An outcome under "newer" for two files with equal times and different
\* bytes and sizes: nothing was synced.
C11_Witness ==
    /\ Outcome
    /\ auto_resolve = Some("newer")
    /\ PreIdentical(<<"save">>)
    /\ fs["local"].nodes[<<"save">>].content # fs["cloud"].nodes[<<"save">>].content
    /\ Len(fs["local"].nodes[<<"save">>].content)
          # Len(fs["cloud"].nodes[<<"save">>].content)
    /\ result.files_synced = 0
    /\ result.success

\* The paths that were in exactly one index when the run started.
PreLocalOnly == PreLocal \ PreCloud
PreCloudOnly == PreCloud \ PreLocal

\* C12: in every outcome, with or without conflicts and for every policy,
\* each local_only path has been copied once to cloud and each cloud_only
\* path once to local, the destination holds the source's pre-run bytes, and
\* files_synced counts these copies; when the outcome reports a conflict,
\* files_synced is exactly the number of one-sided paths.
C12_ConflictsDoNotBlockTransfers ==
    Outcome =>
        /\ \A p \in PreLocalOnly :
              /\ copied[p] = [to_cloud |-> 1, to_local |-> 0]
              /\ IsFile("cloud", p)
              /\ fs["cloud"].nodes[p].content = pre["local"].nodes[p].content
        /\ \A p \in PreCloudOnly :
              /\ copied[p] = [to_cloud |-> 0, to_local |-> 1]
              /\ IsFile("local", p)
              /\ fs["local"].nodes[p].content = pre["cloud"].nodes[p].content
        /\ result.files_synced >= Cardinality(PreLocalOnly \cup PreCloudOnly)
        /\ result.conflicts # <<>> =>
              result.files_synced = Cardinality(PreLocalOnly \cup PreCloudOnly)

\* An outcome that reports the conflict on save and has copied the cloud-only
\* slot/save to local.
C12_Witness ==
    /\ Outcome
    /\ ConflictPaths(result.conflicts) = {<<"save">>}
    /\ PreCloudOnly = {<<"slot", "save">>}
    /\ fs["local"].nodes[<<"slot", "save">>].content
          = InitContent("cloud", <<"slot", "save">>)
    /\ result.files_synced = 1
    /\ ~result.success

\* The policies that resolve a divergent path by a copy.
Resolving == {Some("local"), Some("cloud"), Some("newer")}

\* The divergent paths of the run that its policy resolves.
PreResolved == {p \in Paths : PreDivergent(p) /\ auto_resolve \in Resolving}

\* C13: at every point of a run files_synced is the number of copies made
\* so far, and in every outcome it is the number of local_only paths plus
\* the number of cloud_only paths plus the number of divergent paths the
\* policy resolves; a reported conflict and an identical path were not
\* copied.
C13_FilesSyncedCount ==
    runs > 0 =>
        /\ files_synced = SumCopies(Paths)
        /\ Outcome =>
              /\ result.files_synced = SumCopies(Paths)
              /\ result.files_synced
                    = Cardinality(PreLocalOnly) + Cardinality(PreCloudOnly)
                        + Cardinality(PreResolved)
              /\ \A p \in Paths :
                    (PreIdentical(p) \/ p \in ConflictPaths(result.conflicts))
                        => copied[p] = [to_cloud |-> 0, to_local |-> 0]

\* An outcome under "cloud" that counts two copies: the divergent save
\* resolved towards local and the local-only slot sent to cloud.
C13_Witness ==
    /\ Outcome
    /\ auto_resolve = Some("cloud")
    /\ PreResolved = {<<"save">>}
    /\ PreLocalOnly = {<<"slot">>}
    /\ copied[<<"save">>].to_local = 1
    /\ copied[<<"slot">>].to_cloud = 1
    /\ result.files_synced = 2

\* The divergent paths of the run.
PreDivergentPaths == {p \in Paths : PreDivergent(p)}

\* C14: in every outcome of a run with no policy, the conflicts list holds
\* exactly one record for each divergent path and none for any other path,
\* and each record carries its relative path, the paths of the two files
\* under their roots, and the sizes and modification times the two files
\* had when the run started (they are still the same when it returns).
C14_ConflictRecords ==
    (Outcome /\ auto_resolve = None) =>
        /\ Len(result.conflicts) = Cardinality(PreDivergentPaths)
        /\ ConflictPaths(result.conflicts) = PreDivergentPaths
        /\ \A i \in 1..Len(result.conflicts) :
              LET c == result.conflicts[i]
                  p == c.relative_path
              IN  /\ c.local_path = <<"local">> \o p
                  /\ c.cloud_path = <<"cloud">> \o p
                  /\ c.local_modified = DebugFormat(pre["local"].nodes[p].modified)
                  /\ c.cloud_modified = DebugFormat(pre["cloud"].nodes[p].modified)
                  /\ c.local_size = Len(pre["local"].nodes[p].content)
                  /\ c.cloud_size = Len(pre["cloud"].nodes[p].content)
                  /\ Untouched(p)

\* An outcome with no policy whose only record is the one of the divergent
\* save, next to an identical slot/save that has no record.
C14_Witness ==
    /\ Outcome
    /\ auto_resolve = None
    /\ Len(result.conflicts) = 1
    /\ result.conflicts[1].relative_path = <<"save">>
    /\ result.conflicts[1].local_size # result.conflicts[1].cloud_size
    /\ result.conflicts[1].local_modified # result.conflicts[1].cloud_modified
    /\ PreIdentical(<<"slot", "save">>)

\* sync_game_saves has returned Err(..) for a failed I/O operation.
Aborted == Returned /\ result.kind = "err" /\ result.error = "io"

\* The trees the run started from make the transfer of a one-sided path fail:
\* its destination directory cannot be created or its destination is a
\* directory.
ForcedFailure ==
    \/ \E p \in PreLocalOnly : ~Transfer(pre, "local", p, TRUE, "none").ok
    \/ \E p \in PreCloudOnly : ~Transfer(pre, "cloud", p, TRUE, "none").ok

\* The copies the run completed are in place: the destination of each holds
\* the bytes its source had when the run started.
CopiesInPlace ==
    \A p \in Paths :
        /\ copied[p].to_cloud = 1 =>
              /\ IsFile("cloud", p)
              /\ fs["cloud"].nodes[p].content = pre["local"].nodes[p].content
        /\ copied[p].to_local = 1 =>
              /\ IsFile("local", p)
              /\ fs["local"].nodes[p].content = pre["cloud"].nodes[p].content

\* Apart from the completed copies the run wrote nothing but directories.
NothingElseWritten ==
    \A side \in Sides, p \in Paths :
        (copied[p] = [to_cloud |-> 0, to_local |-> 0]) =>
            \/ fs[side].nodes[p] = pre[side].nodes[p]
            \/ pre[side].nodes[p] = NoNode /\ fs[side].nodes[p] = DirNode

\* The state part of C15.
C15_AtReturn ==
    /\ (Returned /\ ForcedFailure) => Aborted
    /\ Aborted =>
          /\ result = Err("io")
          /\ CopiesInPlace
          /\ NothingElseWritten

\* The step part of C15: the step that fails copies nothing, and no step
\* writes to either root once the error has been returned.
C15_Steps ==
    /\ (pc = "syncing" /\ pc' = "idle" /\ result'.kind = "err") =>
          /\ copied' = copied
          /\ files_synced' = files_synced
          /\ \A side \in Sides, p \in Paths :
                \/ fs'[side].nodes[p] = fs[side].nodes[p]
                \/ fs[side].nodes[p] = NoNode /\ fs'[side].nodes[p] = DirNode
    /\ Aborted => fs' = fs

\* C15: when a directory creation, a metadata read or a copy fails, the run
\* returns an error that carries no count and no conflicts; the failing step
\* copies nothing, nothing is written after it, and when the error is
\* returned every copy completed before the failure is still in place.
C15_AbortOnIoFailure == []C15_AtReturn /\ [][C15_Steps]_vars

\* An aborted run: save had been copied to cloud and is still there, and
\* the cloud-only slot/save was not copied to local.
C15_Witness ==
    /\ Aborted
    /\ copied[<<"save">>].to_cloud = 1
    /\ fs["cloud"].nodes[<<"save">>].content = InitContent("local", <<"save">>)
    /\ <<"slot", "save">> \in PreCloudOnly
    /\ ~IsFile("local", <<"slot", "save">>)

\* The relative paths of the regular files under the root of side in f.
Files(f, side) ==
    IF f[side].kind = "dir"
    THEN {p \in Paths : f[side].nodes[p].kind = "file"}
    ELSE {}

\* C16 (as claimed): in every outcome the two roots hold the same set of
\* relative file paths, the union of the two sets they held before the run.
C16_UnionAnyFile ==
    Outcome =>
        /\ Files(fs, "local") = Files(fs, "cloud")
        /\ Files(fs, "local") = Files(pre, "local") \cup Files(pre, "cloud")

\* C16 (amended): in every outcome each root holds the files it held before
\* the run and every path of the two indexes, and nothing else; so when the
\* modification time of every file can be read, the two roots hold the same
\* set, the union of the two pre-run sets.
C16_UnionOfIndexed ==
    Outcome =>
        /\ \A side \in Sides :
              Files(fs, side) = Files(pre, side) \cup PreLocal \cup PreCloud
        /\ (\A side \in Sides : Files(pre, side) = IndexedPaths(pre, side)) =>
              /\ Files(fs, "local") = Files(fs, "cloud")
              /\ Files(fs, "local") = Files(pre, "local") \cup Files(pre, "cloud")

\* An outcome of a run that started with save on the local side only and
\* slot/save on the cloud side only, both readable: each root holds both.
C16_Witness ==
    /\ Outcome
    /\ Files(pre, "local") = {<<"save">>}
    /\ Files(pre, "cloud") = {<<"slot", "save">>}
    /\ PreLocal = {<<"save">>}
    /\ PreCloud = {<<"slot", "save">>}
    /\ Files(fs, "local") = {<<"save">>, <<"slot", "save">>}
    /\ Files(fs, "cloud") = {<<"save">>, <<"slot", "save">>}

\* What a call resolve_conflict(local p, cloud p, use_local) that meets no
\* I/O failure does to two existing files, whatever their times and sizes.
ResolveOverwrites(p, use_local) ==
    LET ss == IF use_local THEN "local" ELSE "cloud"
        ds == Other(ss)
    IN  /\ resolved' = "ok"
        /\ fs'[ds].nodes[p].kind = "file"
        /\ fs'[ds].nodes[p].content = fs[ss].nodes[p].content
        /\ fs'[ss] = fs[ss]
        /\ \A q \in Paths \ {p} : fs'[ds].nodes[q] = fs[ds].nodes[q]

\* C17: every call of resolve_conflict on the local and the cloud file of a
\* relative path that both exist, when the copy itself does not fail,
\* returns Ok and leaves the destination (cloud with use_local = true,
\* local with use_local = false) holding the bytes the source held before
\* the call, with the source and every other file unchanged.
C17_ResolveConflictOverwrites ==
    [][\A p \in Paths, use_local \in BOOLEAN :
          (/\ ResolveConflict(p, use_local, "none")
           /\ IsFile("local", p)
           /\ IsFile("cloud", p)) => ResolveOverwrites(p, use_local)]_vars

\* A call with use_local = true, made before any run, has overwritten a
\* cloud save that was newer than, and differed from, the local one.
C17_Witness ==
    /\ runs = 0
    /\ resolved = "ok"
    /\ PreFile("local", <<"save">>)
    /\ PreFile("cloud", <<"save">>)
    /\ pre["cloud"].nodes[<<"save">>].modified > pre["local"].nodes[<<"save">>].modified
    /\ pre["cloud"].nodes[<<"save">>].content # pre["local"].nodes[<<"save">>].content
    /\ fs["cloud"].nodes[<<"save">>].content = pre["local"].nodes[<<"save">>].content
    /\ fs["local"] = pre["local"]

\* Under the root of side ds nothing stands in the way of a file at p: the
\* root is a directory, each directory on the way to p is there or missing,
\* and p itself is not a directory.
DestClear(ds, p) ==
    /\ fs[ds].kind = "dir"
    /\ \A a \in Ancestors(p) : fs[ds].nodes[a].kind \in {"none", "dir"}
    /\ fs[ds].nodes[p].kind # "dir"

\* The step went on with the run and left, under the root of side ds, every
\* directory on the way to p and at p a file with the source's bytes.
NestedCopyDone(ss, ds, p) ==
    /\ pc' = "syncing"
    /\ \A a \in Ancestors(p) : fs'[ds].nodes[a] = DirNode
    /\ fs'[ds].nodes[p].kind = "file"
    /\ fs'[ds].nodes[p].content = fs[ss].nodes[p].content
    /\ files_synced' = files_synced + 1

\* C18: the step that handles a one-sided path, at any depth, when no I/O
\* operation fails and no file stands where a directory is needed, creates
\* the directories that are missing on the way to the path under the other
\* root, copies the file to the same relative path there, and does not
\* abort the run.
C18_NestedPaths ==
    [][\A p \in Paths :
          /\ (/\ SyncLocalEntry(p, "none")
              /\ LocalBranch(p) = "local_only"
              /\ DestClear("cloud", p)) => NestedCopyDone("local", "cloud", p)
          /\ (/\ SyncCloudEntry(p, "none")
              /\ CloudOnly(p)
              /\ DestClear("local", p)) => NestedCopyDone("cloud", "local", p)]_vars

\* An outcome of a run that found slot/save on the local side only and no
\* slot directory under the cloud root: the directory and the file are there.
C18_Witness ==
    /\ Outcome
    /\ <<"slot", "save">> \in PreLocalOnly
    /\ pre["cloud"].nodes[<<"slot">>] = NoNode
    /\ fs["cloud"].nodes[<<"slot">>] = DirNode
    /\ fs["cloud"].nodes[<<"slot", "save">>].content
          = InitContent("local", <<"slot", "save">>)
    /\ result.files_synced = 1

\* C19 (as claimed): two runs that return the same outcome have transferred
\* the same paths in the same directions; here the two runs are the run
\* before this one and this one.
C19_OutcomeExposesTransfers ==
    (Outcome /\ last.result.kind = "ok" /\ last.result = result)
        => last.copied = copied

\* What the run does with p, from the trees f it starts on and its policy:
\* a copy "to_cloud" or "to_local", a "conflict", or "none".
ExpectedBranch(f, policy, p) ==
    LET inLocal == p \in IndexedPaths(f, "local")
        inCloud == p \in IndexedPaths(f, "cloud")
    IN  IF inLocal /\ ~inCloud THEN "to_cloud"
        ELSE IF inCloud /\ ~inLocal THEN "to_local"
        ELSE IF inLocal /\ inCloud
                /\ f["local"].nodes[p].modified # f["cloud"].nodes[p].modified
        THEN ResolveDivergent(policy, f["local"].nodes[p].modified,
                              f["cloud"].nodes[p].modified)
        ELSE "none"

\* The trees of invocation v are those it started on, changed by its own
\* copies and by nothing else.
OwnTree(v) ==
    \A side \in Sides, p \in Paths :
        LET received == IF side = "cloud" THEN v.copied[p].to_cloud
                        ELSE v.copied[p].to_local
        IN  IF received > 0
            THEN /\ v.fs[side].nodes[p].kind = "file"
                 /\ v.fs[side].nodes[p].content = v.pre[Other(side)].nodes[p].content
            ELSE \/ v.fs[side].nodes[p] = v.pre[side].nodes[p]
                 \/ /\ v.pre[side].nodes[p] = NoNode
                    /\ v.fs[side].nodes[p] = DirNode

\* What invocation v returned is what a call on its roots alone returns: an
\* error for a missing root or a failed operation, or the outcome its own
\* trees and policy determine.
OwnResult(v) ==
    LET branch(p) == ExpectedBranch(v.pre, v.auto_resolve, p)
        sent == {p \in Paths : branch(p) \in {"to_cloud", "to_local"}}
        reported == {p \in Paths : branch(p) = "conflict"}
    IN  IF RootCheck(v.pre) # "ok" THEN v.result = Err(RootCheck(v.pre))
        ELSE \/ v.result = Err("io")
             \/ /\ v.result.kind = "ok"
                /\ \A p \in Paths :
                      v.copied[p] =
                          [to_cloud |-> IF branch(p) = "to_cloud" THEN 1 ELSE 0,
                           to_local |-> IF branch(p) = "to_local" THEN 1 ELSE 0]
                /\ v.result.files_synced = Cardinality(sent)
                /\ v.result.success = (reported = {})
                /\ Len(v.result.conflicts) = Cardinality(reported)
                /\ ConflictPaths(v.result.conflicts) = reported

\* C20: in every interleaving of the steps of two invocations on four
\* separate roots, at every point the trees of each invocation are the ones
\* it started on changed by its own copies only, and what each returns is
\* what it returns when it runs alone on the same trees with the same
\* policy.
C20_DisjointRunsIndependent ==
    \A v \in {Current, other} :
        (v.id # 0 /\ v.runs > 0) =>
            /\ OwnTree(v)
            /\ v.pc = "idle" => OwnResult(v)

\* Both invocations have returned an outcome after each was interrupted by
\* the other in the middle of its run, and each has copied a file.
C20_Witness ==
    /\ other.id # 0
    /\ other.interleaved
    /\ pc = "idle" /\ result.kind = "ok" /\ result.files_synced > 0
    /\ other.pc = "idle" /\ other.result.kind = "ok"
    /\ other.result.files_synced > 0

\* C21 (as claimed): no step of the program removes or alters a row of
\* sync_history.
C21_HistoryAppendOnly ==
    [][\A r \in history.sync_history : r \in history'.sync_history]_vars

\* The relative-path keys of the two maps: strip_prefix(root) of each entry.
Keys(side) == {Tail(e.path) : e \in BagToSet(files(fs, side))}

\* The number of entries the walk yields for the node at p.
EntriesFor(side, p) ==
    CopiesIn(FileInfo(side, p, fs[side].nodes[p].modified), files(fs, side))

\* C22 (as claimed): the walk yields exactly one entry for every file
\* beneath the root, none for a directory, and nothing for an empty root.
C22_IndexEveryFile ==
    \A side \in Sides :
        /\ \A p \in Paths :
              EntriesFor(side, p) = IF IsFile(side, p) THEN 1 ELSE 0
        /\ BagCardinality(files(fs, side)) = Cardinality(Files(fs, side))

\* C22 (amended): the walk yields exactly one entry for every file beneath
\* the root, at any depth, whose modification time can be read, and no
\* other entry: none for a directory, none for a file whose time cannot be
\* read, nothing for an empty root; so the relative paths are unique keys,
\* and they are the keys of the index the run uses.
C22_IndexEveryReadableFile ==
    \A side \in Sides :
        /\ \A p \in Paths :
              EntriesFor(side, p) =
                  IF IsFile(side, p) /\ fs[side].nodes[p].mtime_ok THEN 1 ELSE 0
        /\ BagCardinality(files(fs, side)) = Cardinality(Keys(side))
        /\ Keys(side) = IndexedPaths(fs, side)
        /\ Files(fs, side) = {} => files(fs, side) = EmptyBag

\* A local root with a readable save, a directory slot and a readable
\* slot/save in it: the walk yields the two files and not the directory.
C22_Witness ==
    /\ Keys("local") = {<<"save">>, <<"slot", "save">>}
    /\ fs["local"].nodes[<<"slot">>] = DirNode
    /\ BagCardinality(files(fs, "local")) = 2
    /\ fs["cloud"].kind = "dir" /\ Files(fs, "cloud") = {}
    /\ files(fs, "cloud") = EmptyBag

\* p was a file under the root of side whose modification time could not be
\* read when the run started.
PreUnreadable(side, p) == PreFile(side, p) /\ ~pre[side].nodes[p].mtime_ok

\* The copies of p that the run made towards side.
CopiesTo(side, p) ==
    IF side = "cloud" THEN copied[p].to_cloud ELSE copied[p].to_local

\* The state part of C23.
C23_AtReturn ==
    runs > 0 =>
        \A side \in Sides, p \in Paths : PreUnreadable(side, p) =>
            /\ p \notin IndexedPaths(pre, side)
            /\ CopiesTo(Other(side), p) = 0
            /\ Outcome =>
                  /\ p \notin ConflictPaths(result.conflicts)
                  /\ IF p \in IndexedPaths(pre, Other(side))
                     THEN /\ handled[p] = {IF side = "local" THEN "cloud_only"
                                           ELSE "local_only"}
                          /\ CopiesTo(side, p) = 1
                          /\ fs[side].nodes[p].content
                                = pre[Other(side)].nodes[p].content
                          /\ fs[Other(side)].nodes[p] = pre[Other(side)].nodes[p]
                     ELSE /\ handled[p] = {}
                          /\ Untouched(p)

\* The step part of C23: the start of a run whose two roots exist and whose
\* directory reads do not fail goes on to the loops, with no entry for a
\* file whose time cannot be read.
C23_Start ==
    \A policy \in Policies :
        (SyncStart(policy, "none") /\ RootCheck(fs) = "ok") =>
            /\ pc' = "syncing"
            /\ \A p \in Paths :
                  (IsFile("local", p) /\ ~fs["local"].nodes[p].mtime_ok)
                      => p \notin DOMAIN local_map'
            /\ \A p \in Paths :
                  (IsFile("cloud", p) /\ ~fs["cloud"].nodes[p].mtime_ok)
                      => p \notin DOMAIN cloud_map'

\* C23: a file whose modification time cannot be read gets no index entry,
\* and that raises no error and no conflict; the run treats the path as
\* absent on that side: it never copies the file to the other root, and in
\* every outcome, when the other root has the path in its index, the path
\* was handled as one-sided and the other root's file was copied over the
\* unreadable one; otherwise the path was not handled at all.
C23_UnreadableSkipped == []C23_AtReturn /\ [][C23_Start]_vars

\* An outcome of a run that found a local save whose time could not be read
\* and a readable cloud save: the cloud bytes are now in both roots.
C23_Witness ==
    /\ Outcome
    /\ PreUnreadable("local", <<"save">>)
    /\ <<"save">> \in PreCloud
    /\ fs["local"].nodes[<<"save">>].content = InitContent("cloud", <<"save">>)
    /\ result.files_synced = 1
    /\ result.success

\* The record the run pushes for the divergent path p of the trees f.
ExpectedRecord(f, p) ==
    [relative_path  |-> p,
     local_path     |-> <<"local">> \o p,
     cloud_path     |-> <<"cloud">> \o p,
     local_modified |-> DebugFormat(f["local"].nodes[p].modified),
     cloud_modified |-> DebugFormat(f["cloud"].nodes[p].modified),
     local_size     |-> Len(f["local"].nodes[p].content),
     cloud_size     |-> Len(f["cloud"].nodes[p].content)]

\* The bytes at p under the root of side after a run on the trees f with the
\* given policy that met no failure.
ExpectedContent(f, policy, side, p) ==
    LET branch == ExpectedBranch(f, policy, p)
    IN  IF (side = "cloud" /\ branch = "to_cloud")
           \/ (side = "local" /\ branch = "to_local")
        THEN f[Other(side)].nodes[p].content
        ELSE f[side].nodes[p].content

\* C24: every outcome is a function of the trees the run started on and of
\* its policy alone: the set of conflict records, files_synced, success and
\* the bytes of every file are the same whatever the order in which the
\* entries of the two maps were visited and whatever an earlier invocation
\* did or returned.
C24_OrderIndependent ==
    Outcome =>
        LET branch(p) == ExpectedBranch(pre, auto_resolve, p)
            sent == {p \in Paths : branch(p) \in {"to_cloud", "to_local"}}
            reported == {p \in Paths : branch(p) = "conflict"}
        IN  /\ result.files_synced = Cardinality(sent)
            /\ result.success = (reported = {})
            /\ {result.conflicts[i] : i \in 1..Len(result.conflicts)}
                  = {ExpectedRecord(pre, p) : p \in reported}
            /\ Len(result.conflicts) = Cardinality(reported)
            /\ \A side \in Sides, p \in Paths :
                  /\ fs[side].nodes[p].content
                        = ExpectedContent(pre, auto_resolve, side, p)
                  /\ (fs[side].nodes[p].kind = "file")
                        = (\/ pre[side].nodes[p].kind = "file"
                           \/ p \in sent)

\* The outcome of a second run that copied two files after a first run that
\* had copied one and reported a conflict.
C24_Witness ==
    /\ Outcome
    /\ runs = 2
    /\ result.files_synced = 2
    /\ last.result.kind = "ok"
    /\ last.result.files_synced = 1
    /\ ~last.result.success

\* C25 (as claimed): when the run before this one had no policy and
\* reported a conflict for save, and resolve_conflict has since copied one
\* of the two files over the other (the only change to the roots, save
\* being the only file path of these trees), this run's outcome does not
\* report save as a conflict.
C25_ResolvedNotReportedAgain ==
    (/\ Outcome
     /\ last.result.kind = "ok"
     /\ last.auto_resolve = None
     /\ <<"save">> \in ConflictPaths(last.result.conflicts)
     /\ resolved = "ok"
     /\ ~last.quiet)
    => <<"save">> \notin ConflictPaths(result.conflicts)

\* Invocation i of two: the one taking steps or the one that waits.
Invocation(i) == IF Current.id = i THEN Current ELSE other

\* C26: the earlier revision and the current engine with auto_resolve =
\* "newer", each called on its own copy of the same trees, both return an
\* outcome or both return the same error; when they return outcomes they
\* have made the same copies in the same directions, their trees are the
\* same and files_synced is the same, the earlier revision's outcome has
\* success = true, and the current engine's has success = true and no
\* conflicts. The earlier revision collects no conflict at any point.
C26_RevisionsEquivalent ==
    LET new == Invocation(1)
        old == Invocation(2)
    IN  /\ old.conflicts = <<>>
        /\ (/\ new.pc = "idle" /\ new.runs = 1
            /\ old.pc = "idle" /\ old.runs = 1) =>
               /\ new.result.kind = old.result.kind
               /\ new.result.error = old.result.error
               /\ new.result.kind = "ok" =>
                     /\ new.copied = old.copied
                     /\ new.fs = old.fs
                     /\ new.result.files_synced = old.result.files_synced
                     /\ new.result.message = old.result.message
                     /\ old.result.success
                     /\ new.result.success
                     /\ new.result.conflicts = <<>>

\* Both revisions have returned outcomes, each interrupted by the other in
\* the middle of its run, after copying the newer cloud save to local and a
\* file that only local had to cloud.
C26_Witness ==
    LET new == Invocation(1)
        old == Invocation(2)
    IN  /\ other.interleaved
        /\ new.pc = "idle" /\ new.result.kind = "ok"
        /\ old.pc = "idle" /\ old.result.kind = "ok"
        /\ old.copied[<<"save">>].to_local = 1
        /\ old.copied[<<"slot", "save">>].to_cloud = 1
        /\ old.result.files_synced = 2
        /\ old.pre["local"].nodes[<<"save">>].kind = "file"

\* C27: no step of sync_game_saves or of resolve_conflict removes a file:
\* the relative paths that are files under each root after a step include
\* those before it, whether the step copies, creates directories, fails or
\* returns an error.
C27_NoDeletion ==
    [][\A side \in Sides : Files(fs, side) \subseteq Files(fs', side)]_vars

\* A run has aborted with an I/O error after copying a file that the
\* destination root did not have, resolve_conflict having copied a file
\* before it: every file the roots had at the start is still there.
C27_Witness ==
    /\ pc = "idle"
    /\ runs = 1
    /\ resolved = "ok"
    /\ result = Err("io")
    /\ SumCopies(Paths) > 0
    /\ \A side \in Sides : Files(pre, side) \subseteq Files(fs, side)
    /\ \E side \in Sides : Files(fs, side) # Files(pre, side)

\* The policies that settle every divergent file by a copy.
CopyingPolicies == {Some("local"), Some("cloud"), Some("newer")}

\* This run follows a run with the same copying policy that returned
\* success = true, and nothing else has changed the roots in between.
FurtherRun ==
    /\ runs > 1
    /\ auto_resolve \in CopyingPolicies
    /\ last.auto_resolve = auto_resolve
    /\ last.result.kind = "ok"
    /\ last.result.success
    /\ last.quiet

\* The file paths of both roots are those of the start of the run, with
\* the same bytes.
ContentAsAtStart ==
    \A side \in Sides, p \in Paths :
        /\ IsFile(side, p) = PreFile(side, p)
        /\ IsFile(side, p) =>
              fs[side].nodes[p].content = pre[side].nodes[p].content

\* p is a file with the same bytes in both roots, or a file in neither.
SameContent(p) ==
    /\ IsFile("local", p) = IsFile("cloud", p)
    /\ IsFile("local", p) =>
          fs["local"].nodes[p].content = fs["cloud"].nodes[p].content

\* The engine compared or copied p: it indexed p in a root at the start of
\* the run, and not in both with equal modification times.
PreSettled(p) ==
    /\ p \in IndexedPaths(pre, "local") \cup IndexedPaths(pre, "cloud")
    /\ ~(/\ p \in IndexedPaths(pre, "local") \cap IndexedPaths(pre, "cloud")
         /\ pre["local"].nodes[p].modified = pre["cloud"].nodes[p].modified)

\* A run with a copying policy has returned success = true.
CopyingSuccess ==
    Outcome /\ result.success /\ auto_resolve \in CopyingPolicies

\* C28 (as claimed): after a run with policy "local", "cloud" or "newer"
\* has returned success = true, both roots hold the same content at every
\* relative path, and at every point of a further run with the same policy
\* the content of every file is what it was when that run started.
C28_ContentFixpoint ==
    /\ CopyingSuccess => \A p \in Paths : SameContent(p)
    /\ FurtherRun => ContentAsAtStart

\* C28 (amended): after a run with policy "local", "cloud" or "newer" has
\* returned success = true, both roots hold the same content at every
\* relative path the run indexed in at least one root, except the paths
\* indexed in both with equal modification times; and at every point of a
\* further run with the same policy the content of every file is what it
\* was when that run started, whatever the run copies again.
C28_ContentFixpointOfSettled ==
    /\ CopyingSuccess => \A p \in Paths : PreSettled(p) => SameContent(p)
    /\ FurtherRun => ContentAsAtStart

\* A further run has returned success = true after copying again the save
\* that the run before it had copied: the roots had different bytes at
\* save before the first run and have the same bytes now.
C28_Witness ==
    /\ FurtherRun
    /\ CopyingSuccess
    /\ result.files_synced > 0
    /\ last.copied[<<"save">>].to_cloud + last.copied[<<"save">>].to_local = 1
    /\ copied[<<"save">>].to_cloud + copied[<<"save">>].to_local = 1
    /\ SameContent(<<"save">>)
    /\ IsFile("local", <<"save">>)
    /\ ContentAsAtStart

\* C29: at every point of a run, aborted or not, each relative path has
\* been copied at most once in all (so it is the destination of at most one
\* copy and is not copied in both directions), and no path that was copied
\* is among the conflicts collected so far or returned.
C29_OneActionPerPath ==
    runs > 0 =>
        \A p \in Paths :
            /\ copied[p].to_cloud <= 1
            /\ copied[p].to_local <= 1
            /\ copied[p].to_cloud + copied[p].to_local <= 1
            /\ copied[p].to_cloud + copied[p].to_local = 1 =>
                  /\ p \notin ConflictPaths(conflicts)
                  /\ result.kind = "ok" => p \notin ConflictPaths(result.conflicts)

\* A run without policy has returned an outcome that reports save as a
\* conflict, after copying slot/save once, to cloud, and save in no
\* direction.
C29_Witness ==
    /\ Outcome
    /\ auto_resolve = None
    /\ ConflictPaths(result.conflicts) = {<<"save">>}
    /\ copied[<<"slot", "save">>] = [to_cloud |-> 1, to_local |-> 0]
    /\ copied[<<"save">>] = [to_cloud |-> 0, to_local |-> 0]

\* When the run started, p was a regular file under the root of side and q,
\* beneath p, was a regular file under the other root.
PreClash(side, p, q) ==
    /\ q \in Descendants(p)
    /\ PreFile(side, p)
    /\ PreFile(Other(side), q)

\* C30 (as claimed): a run that started with a relative path being a
\* regular file in one root and a directory holding a file in the other
\* returns an I/O error, whatever the policy, and at no point collects a
\* conflict for that path.
C30_ClashIsIoError ==
    \A side \in Sides, p \in Paths, q \in Paths :
        (runs > 0 /\ PreClash(side, p, q)) =>
            /\ p \notin ConflictPaths(conflicts)
            /\ Returned => result = Err("io")

\* C30 (amended): the same, when the modification time of the file at the
\* path or of the file beneath it in the other root can be read.
C30_IndexedClashIsIoError ==
    \A side \in Sides, p \in Paths, q \in Paths :
        (/\ runs > 0
         /\ PreClash(side, p, q)
         /\ pre[side].nodes[p].mtime_ok \/ pre[Other(side)].nodes[q].mtime_ok) =>
            /\ p \notin ConflictPaths(conflicts)
            /\ Returned => result = Err("io")

\* A run with a policy has returned an I/O error after copying save: slot
\* is a file in cloud, whose time cannot be read, and a directory holding
\* the file slot/save in local.
C30_Witness ==
    /\ Returned
    /\ result = Err("io")
    /\ auto_resolve = Some("newer")
    /\ PreClash("cloud", <<"slot">>, <<"slot", "save">>)
    /\ ~pre["cloud"].nodes[<<"slot">>].mtime_ok
    /\ copied[<<"save">>].to_cloud + copied[<<"save">>].to_local = 1
    /\ fs["cloud"].nodes[<<"slot">>] = pre["cloud"].nodes[<<"slot">>]

====
